---- MODULE Spec2Model ----
(***************************************************************************)
(* Reddit_Getter: the error classifier (error_handler.py), the retry       *)
(* decorator, the comment-tree builder and the media classifier            *)
(* (data_retriever.py), and main (reddit_extractor.py).                    *)
(*                                                                         *)
(* The specifications of the module:                                       *)
(*   SpecClassifier   one call of is_retryable_error on an arbitrary error *)
(*   Spec             one call of a function wrapped by retry_with_backoff *)
(*   SpecFair         the same, every attempt and sleep coming to an end   *)
(*   SpecCalls        successive calls of one wrapped function             *)
(*   SpecTree         one call of the body of fetch_comments_data          *)
(*   SpecTreeSort     the same, on comments with scores of their own       *)
(*   SpecTreeFail     the same, with a listing of replies that fails       *)
(*   SpecMedia        one call of extract_media_info                       *)
(*   SpecMediaFaulty  the same, on metadata with malformed parts           *)
(*   SpecMain         one run of main                                      *)
(*   SpecFetch        one call of fetch_post_data / fetch_comments_data    *)
(*                    behind the retry decorator                           *)
(*   SpecComments     the same for fetch_comments_data, its body run on a  *)
(*                    forest whose listing may fail in an attempt          *)
(*                                                                         *)
(* Texts are sequences of words (str(error) split at single blanks); the   *)
(* Python test `phrase in text` is matching of a contiguous run of words.  *)
(* Delays are counted in tenths of a second, so that the 10% jitter of a   *)
(* whole-second delay is a whole number (base_delay = 2 s is 20).          *)
(***************************************************************************)
EXTENDS Integers, Sequences, FiniteSets, TLC

VARIABLES
    \* ---- is_retryable_error (SpecClassifier)
    cl_pc,            \* "ready" | "done"
    cl_error,         \* the error passed to is_retryable_error
    cl_result,        \* "None" before the call, then "True" | "False" | "AttributeError"
    praw_importable,  \* whether `import prawcore.exceptions, praw.exceptions` succeeds
    \* ---- retry_with_backoff.wrapper (Spec)
    max_retries, base_delay, max_delay,   \* the decorator's parameters
    func_name,        \* func.__name__ of the wrapped function
    pc,               \* "idle" | "calling" | "sleeping" | "returned" | "raised" | "aborted"
    retries,          \* local variable retries
    current_delay,    \* local variable current_delay
    jitter,           \* local variable jitter of the pending / last sleep
    actual_delay,     \* local variable actual_delay of the pending / last sleep
    last_error,       \* <<e>>: the error of the last failed attempt, <<>> if none
    raised,           \* <<x>>: the error that left the wrapper, <<>> if none
    returned,         \* <<v>>: the value the wrapper returned, <<>> if none
    attempts,         \* number of invocations of func so far
    sleeps,           \* number of time.sleep calls started so far
    failures,         \* number of attempts that raised
    all_retryable,    \* every failure so far was classified retryable
    prev_delay,       \* current_delay at the previous sleep (<<>> before the second)
    abort,            \* the request was aborted (KeyboardInterrupt delivered)
    \* ---- fetch_comments_data (SpecTree)
    forest,           \* what the remote source yields: [n, parent, kind, score]
    fail_at,          \* <<>>, or <<c, k>>: listing the replies of c (the top level
                      \* for c = 0) raises once k of them have been yielded
    sort_order,       \* parameter sort_order
    comment_depth,    \* parameter comment_depth: <<>> for None, else <<m>>
    num_comments,     \* parameter num_comments
    tree_pc,          \* "idle" | "ready" | "done" | "raised"
    tree_result,      \* the list fetch_comments_data returned
    \* ---- extract_media_info (SpecMedia, SpecMediaFaulty)
    submission,       \* the attributes of the post that extract_media_info reads
    media_pc,         \* "idle" | "ready" | "done"
    structured_media, \* the list extract_media_info returned
    media_error,      \* an exception was caught (and logged) inside the call
    \* ---- main (SpecMain)
    argv,             \* the command line and the answers given at the prompts
    main_pc,          \* "idle" | "start" | "parsed" | "client ready" | "submission loaded"
                      \* | "post fetched" | "comments done" | "exited"
    args,             \* the namespace parse_arguments returned
    post_retries,     \* retries of the wrapper around fetch_post_data
    comment_retries,  \* retries of the wrapper around fetch_comments_data
    post_requests,    \* number of times the post was requested from the source
    comment_calls,    \* number of times the body of fetch_comments_data ran
    post_data,        \* local variable post_data of main: <<>> before it is
                      \* assigned, then <<the post's id>>
    comments_data,    \* local variable comments_data of main
    main_error,       \* <<e>>: the error that ended the run, <<>> if none
    exit_code,        \* <<>> while running, then <<0>>, <<1>> or <<2>>
    \* ---- fetch_post_data / fetch_comments_data behind the wrapper (SpecFetch)
    fetch_name,       \* "none" | "fetch_post_data" | "fetch_comments_data"
    fetch_id,         \* the id of the post, a sequence of pieces of text
    fetch_pc,         \* "idle" | "calling" | "returned" | "raised"
    fetch_retries,    \* local variable retries of the wrapper
    fetch_attempts,   \* number of times the body ran
    fetch_sleeps,     \* number of time.sleep calls
    remote_error,     \* <<x>>: what made the last failed attempt fail, <<>> if none
    fetch_raised,     \* <<e>>: the error that left the wrapper, <<>> if none
    discarded,        \* comments_data_list of the last failed attempt (SpecComments)
    \* ---- successive calls of one wrapped function (SpecCalls)
    calls,            \* number of calls of the wrapper begun so far
    spent             \* <<retries the call before used>>, <<>> for the first call

cl_vars == <<cl_pc, cl_error, cl_result>>
retry_vars == <<max_retries, base_delay, max_delay, func_name, pc, retries,
                current_delay, jitter, actual_delay, last_error, raised, returned,
                attempts, sleeps, failures, all_retryable, prev_delay, abort,
               calls, spent>>
tree_vars == <<forest, fail_at, sort_order, comment_depth, num_comments, tree_pc,
               tree_result>>
media_vars == <<submission, media_pc, structured_media, media_error>>
main_vars == <<argv, main_pc, args, post_retries, comment_retries, post_requests,
               comment_calls, post_data, comments_data, main_error, exit_code>>
call_vars == <<calls, spent>>
fetch_vars == <<fetch_name, fetch_id, fetch_pc, fetch_retries, fetch_attempts,
                fetch_sleeps, remote_error, fetch_raised, discarded>>
vars == <<cl_vars, praw_importable, retry_vars, tree_vars, media_vars, main_vars,
          fetch_vars>>

Min(a, b) == IF a <= b THEN a ELSE b

(***************************************************************************)
(* Texts                                                                   *)
(***************************************************************************)

\* str.lower() on one word: the words of the model that hold capitals.
Lower(w) ==
    CASE w = "Rate" -> "rate"
      [] w = "Limit" -> "limit"
      [] w = "TIMEOUT" -> "timeout"
      [] w = "Timed" -> "timed"
      [] w = "Out" -> "out"
      [] w = "Server" -> "server"
      [] w = "Error" -> "error"
      [] w = "Try" -> "try"
      [] w = "Again" -> "again"
      [] w = "Later" -> "later"
      [] w = "Not" -> "not"
      [] w = "Found" -> "found"
      [] w = "Received" -> "received"
      [] w = "HTTP" -> "http"
      [] OTHER -> w

\* str(error).lower()
LowerText(text) == [i \in 1..Len(text) |-> Lower(text[i])]

\* Python `phrase in text` for str operands: phrase occurs as a contiguous run.
Contains(text, phrase) ==
    \E i \in 0..(Len(text) - Len(phrase)) :
        \A j \in 1..Len(phrase) : text[i + j] = phrase[j]

(***************************************************************************)
(* Errors                                                                  *)
(*   cls       the exception class                                         *)
(*   response  "<absent>" (no attribute), "None", "<no status_code>" (an   *)
(*             object without status_code) or the status code              *)
(*   msg       str(error)                                                  *)
(*   cause     <<>> or <<the error it was raised from>>                    *)
(***************************************************************************)

\* Classes listed in the isinstance test of is_retryable_error.
KnownApiClasses == {"RequestException", "ResponseException", "PrawcoreException",
                    "RedditAPIException"}

\* Subclasses of praw.exceptions.PRAWException (prawcore's are not).
PRAWExceptionClasses == {"RedditAPIException", "ClientException"}

\* The classes that come from the praw / prawcore packages.
LibraryClasses == KnownApiClasses \cup PRAWExceptionClasses

RetryableStatusCodes == {"429", "500", "502", "503", "504"}

\* retryable_phrases, in the order of the list.
retryable_phrases == <<
    <<"rate", "limit">>, <<"ratelimit">>,
    <<"timeout">>, <<"time-out">>, <<"timed", "out">>,
    <<"connection", "failed">>, <<"connection", "reset">>,
    <<"connection", "refused">>, <<"connection", "error">>,
    <<"temporary">>, <<"transient">>,
    <<"500">>, <<"502">>, <<"503">>, <<"504">>,
    <<"server", "error">>, <<"internal", "server", "error">>,
    <<"service", "unavailable">>,
    <<"please", "try", "again", "later">> >>

\* The isinstance test in the try block: the import must succeed first.
IsKnownApiError(error) == praw_importable /\ error.cls \in KnownApiClasses

\* Reading error.response.status_code raises AttributeError when the response
\* object has no such attribute; only ImportError is caught around it.
StatusLookupRaises(error) ==
    /\ IsKnownApiError(error)
    /\ error.response = "<no status_code>"

\* The two status tests: 429, then the 5xx list.
StatusSaysRetryable_only429(error) ==
    /\ IsKnownApiError(error)
    /\ error.response \notin {"<absent>", "None"}
    /\ error.response = "429"
StatusSaysRetryable(error) ==
    /\ IsKnownApiError(error)
    /\ error.response \notin {"<absent>", "None"}
    /\ error.response \in RetryableStatusCodes

\* any(phrase in error_str for phrase in retryable_phrases)
TextSaysRetryable_caseSensitive(error) ==
    \E k \in 1..Len(retryable_phrases) :
        Contains(error.msg, retryable_phrases[k])
TextSaysRetryable(error) ==
    \E k \in 1..Len(retryable_phrases) :
        Contains(LowerText(error.msg), retryable_phrases[k])

\* is_retryable_error: "True", "False", or the exception that leaves it.
is_retryable_error(error) ==
    IF StatusLookupRaises(error) THEN "AttributeError"
    ELSE IF StatusSaysRetryable(error) THEN "True"
    ELSE IF TextSaysRetryable(error) THEN "True" ELSE "False"

(***************************************************************************)
(* Inputs of the classifier                                                *)
(***************************************************************************)

\* Longest run of filler words put in front of a message.
MaxPad == 1

Fillers == {"post", "please", "server"}

PadsUpTo(n) == UNION { [1..k -> Fillers] : k \in 0..n }

\* The texts the classification is tried on: the phrases of the code's list,
\* the wording of the written description, capitalised forms and near misses.
CoreMessages == {
    <<>>, <<"Not", "Found">>, <<"Received", "404", "HTTP", "response">>,
    <<"rate", "limit">>, <<"Rate", "Limit">>, <<"ratelimit">>, <<"rate">>,
    <<"limit", "rate">>,
    <<"timeout">>, <<"TIMEOUT">>, <<"time-out">>, <<"Timed", "Out">>, <<"timed">>,
    <<"connection", "failed">>, <<"connection", "reset">>,
    <<"connection", "refused">>, <<"connection", "error">>,
    <<"connection", "closed">>,
    <<"temporary">>, <<"transient">>,
    <<"429">>, <<"401">>, <<"403">>, <<"500">>, <<"502">>, <<"503">>, <<"504">>,
    <<"Server", "Error">>, <<"internal", "server", "error">>, <<"error">>,
    <<"service", "unavailable">>, <<"unavailable">>,
    <<"please", "try", "again", "later">>, <<"Try", "Again", "Later">>,
    <<"try", "again">> }

Messages == { pre \o core \o post :
                pre \in PadsUpTo(MaxPad), core \in CoreMessages, post \in PadsUpTo(1) }

ErrorClasses == {"ResponseException", "RequestException", "RedditAPIException",
                 "ClientException", "PostRetrievalError", "Exception"}

Responses == {"<absent>", "None", "<no status_code>",
              "403", "404", "429", "500", "502", "503", "504"}

Error(c, r, m) == [cls |-> c, response |-> r, msg |-> m, cause |-> <<>>]

NoError == Error("None", "<absent>", <<>>)

EmptyForest == [n |-> 0, parent |-> <<>>, kind |-> <<>>, score |-> <<>>]

TreeIdle ==
    /\ forest = EmptyForest /\ fail_at = <<>> /\ sort_order = "best"
    /\ comment_depth = <<>> /\ num_comments = 0
    /\ tree_pc = "idle" /\ tree_result = <<>>

NoSubmission ==
    [is_gallery |-> "absent", media_metadata |-> <<>>, is_video |-> FALSE,
     reddit_video |-> FALSE, preview |-> "absent", domain |-> "self", is_self |-> TRUE,
     url |-> <<>>, oembed |-> "absent"]

MediaIdle ==
    /\ submission = NoSubmission /\ media_pc = "idle"
    /\ structured_media = <<>> /\ media_error = FALSE

NoArgv ==
    [url |-> FALSE, comments |-> <<>>, all_comments |-> FALSE, no_comments |-> FALSE,
     sort |-> "best", depth |-> <<>>,
     answer_limit |-> <<>>, answer_sort |-> "best", answer_depth |-> <<>>]

NoArgs == [comment_limit |-> <<>>, sort |-> "best", depth |-> <<>>, interactive_mode |-> FALSE]

MainIdle ==
    /\ argv = NoArgv /\ main_pc = "idle" /\ args = NoArgs
    /\ post_retries = 0 /\ comment_retries = 0
    /\ post_requests = 0 /\ comment_calls = 0
    /\ post_data = <<>> /\ comments_data = <<>>
    /\ main_error = <<>> /\ exit_code = <<>>

FetchIdle ==
    /\ fetch_name = "none" /\ fetch_id = <<>> /\ fetch_pc = "idle"
    /\ fetch_retries = 0 /\ fetch_attempts = 0 /\ fetch_sleeps = 0
    /\ remote_error = <<>> /\ fetch_raised = <<>> /\ discarded = <<>>

(***************************************************************************)
(* SpecClassifier: one call of is_retryable_error                          *)
(***************************************************************************)

RetryIdle ==
    /\ max_retries = 0 /\ base_delay = 0 /\ max_delay = 0
    /\ func_name = "None" /\ pc = "idle"
    /\ retries = 0 /\ current_delay = 0 /\ jitter = 0 /\ actual_delay = 0
    /\ last_error = <<>> /\ raised = <<>> /\ returned = <<>>
    /\ attempts = 0 /\ sleeps = 0 /\ failures = 0
    /\ all_retryable = TRUE /\ prev_delay = <<>> /\ abort = FALSE
    /\ calls = 0 /\ spent = <<>>

InitClassifier ==
    /\ cl_pc = "ready"
    /\ cl_result = "None"
    /\ praw_importable \in BOOLEAN
    /\ cl_error \in { Error(c, r, m) : c \in ErrorClasses, r \in Responses, m \in Messages }
    \* An instance of a praw / prawcore class exists only where the packages do.
    /\ (cl_error.cls \in LibraryClasses) => praw_importable
    \* The program's own failures (RedditExtractorError) carry no response.
    /\ (cl_error.cls = "PostRetrievalError") => cl_error.response = "<absent>"
    /\ RetryIdle
    /\ TreeIdle
    /\ MediaIdle
    /\ MainIdle
    /\ FetchIdle

Classify ==
    /\ cl_pc = "ready"
    /\ cl_result' = is_retryable_error(cl_error)
    /\ cl_pc' = "done"
    /\ UNCHANGED <<fetch_vars, cl_error, praw_importable, retry_vars, tree_vars, media_vars,
                   main_vars>>

NextClassifier == Classify

SpecClassifier == InitClassifier /\ [][NextClassifier]_vars

(***************************************************************************)
(* Properties of is_retryable_error (checked under SpecClassifier)         *)
(***************************************************************************)

\* The transient vocabulary as the written description lists it.
DescribedPhrases == {
    <<"rate", "limit">>, <<"timeout">>,
    <<"connection", "reset">>, <<"connection", "refused">>, <<"connection", "failed">>,
    <<"temporary">>, <<"transient">>, <<"server", "error">>,
    <<"service", "unavailable">>, <<"try", "again", "later">> }

\* The vocabulary of the code's list, as a set.
ListedPhrases == (DescribedPhrases \cup {
    <<"ratelimit">>, <<"time-out">>, <<"timed", "out">>, <<"connection", "error">>,
    <<"500">>, <<"502">>, <<"503">>, <<"504">>, <<"internal", "server", "error">>,
    <<"please", "try", "again", "later">> }) \ { <<"try", "again", "later">> }

\* Some stretch of the lower-cased text is one of the phrases.
Mentions(text, phrases) ==
    LET low == LowerText(text)
    IN  \E i \in 1..Len(low) : \E j \in i..Len(low) : SubSeq(low, i, j) \in phrases

\* An API error with a structured status code: a listed PRAW/prawcore class
\* whose response has a status_code.
CarriesStatus(error) ==
    /\ praw_importable
    /\ error.cls \in {"RequestException", "ResponseException",
                      "PrawcoreException", "RedditAPIException"}
    /\ error.response \notin {"<absent>", "None", "<no status_code>"}

\* C7 (as stated): the result is true exactly when the error carries status
\* 429/500/502/503/504 or its text contains a phrase of the described vocabulary.
C7_AsStated ==
    cl_pc = "done" =>
        ((cl_result = "True") <=>
            \/ cl_error.response \in RetryableStatusCodes
            \/ Mentions(cl_error.msg, DescribedPhrases))

\* C7 (amended): the result is true exactly when the error is of a listed
\* PRAW/prawcore class with a response of status 429/500/502/503/504, or its
\* lower-cased text contains a phrase of the code's list and the status lookup
\* did not fail on a response without status_code.
C7_TrueExactlyWhen ==
    cl_pc = "done" =>
        LET listed == praw_importable /\ cl_error.cls \in
                        {"RequestException", "ResponseException",
                         "PrawcoreException", "RedditAPIException"}
        IN  (cl_result = "True") <=>
                \/ listed /\ cl_error.response \in {"429", "500", "502", "503", "504"}
                \/ /\ Mentions(cl_error.msg, ListedPhrases)
                   /\ ~(listed /\ cl_error.response = "<no status_code>")

\* C7 witness: a capitalised phrase that only the code's list holds is
\* classified retryable, and the described phrase without "please" is not.
C7_Witness ==
    /\ cl_pc = "done"
    /\ \/ cl_error.msg = <<"Timed", "Out">> /\ cl_result = "True"
       \/ cl_error.msg = <<"Try", "Again", "Later">> /\ cl_result = "False"
    /\ cl_error.response = "<absent>"

\* C8 (as stated): two errors with the same status code get the same
\* classification whatever their messages say.
C8_AsStated ==
    (cl_pc = "done" /\ CarriesStatus(cl_error)) =>
        \A m \in CoreMessages :
            is_retryable_error([cl_error EXCEPT !.msg = m]) = cl_result

\* C8 (amended): an API error with status 429/500/502/503/504 is retryable
\* whatever its message says; with any other status code the status is
\* ignored and the text decides.
C8_StatusPriority ==
    (cl_pc = "done" /\ CarriesStatus(cl_error)) =>
        IF cl_error.response \in {"429", "500", "502", "503", "504"}
        THEN /\ cl_result = "True"
             /\ \A m \in CoreMessages :
                    is_retryable_error([cl_error EXCEPT !.msg = m]) = "True"
        ELSE cl_result = IF Mentions(cl_error.msg, ListedPhrases) THEN "True" ELSE "False"

\* C8 witness: a status-404 error whose text mentions a timeout is retryable,
\* unlike a status-404 error that says "not found".
C8_Witness ==
    /\ cl_pc = "done"
    /\ cl_error.cls = "ResponseException"
    /\ cl_error.response = "404"
    /\ cl_error.msg = <<"timeout">>
    /\ cl_result = "True"
    /\ is_retryable_error([cl_error EXCEPT !.msg = <<"Not", "Found">>]) = "False"

\* C9 (as stated): is_retryable_error never raises; it returns a boolean for
\* every error, one whose response has no status_code included.
C9_NeverRaises == cl_pc = "done" => cl_result \in {"True", "False"}

(***************************************************************************)
(* retry_with_backoff                                                      *)
(***************************************************************************)

Seconds(s) == 10 * s

\* The defaults of retry_with_backoff(max_retries=3, base_delay=2, max_delay=30).
DefaultMaxRetries == 3
DefaultBaseDelay == Seconds(2)
DefaultMaxDelay == Seconds(30)

\* `raise X(...) from e`
RaisedFrom(c, text, e) == [cls |-> c, response |-> "<absent>", msg |-> text, cause |-> <<e>>]

\* The handler's test `retries >= max_retries or not is_retryable_error(e)`;
\* `or` does not evaluate the classifier once the retries are used up, and an
\* exception of the classifier leaves the handler.
HandlerDecision_offByOne(r, m, e) ==
    IF r > m THEN "give up"
    ELSE CASE is_retryable_error(e) = "True" -> "sleep"
           [] is_retryable_error(e) = "False" -> "give up"
           [] OTHER -> "classifier raises"
HandlerDecision_oneRetryFewer(r, m, e) ==
    IF r + 1 >= m THEN "give up"
    ELSE CASE is_retryable_error(e) = "True" -> "sleep"
           [] is_retryable_error(e) = "False" -> "give up"
           [] OTHER -> "classifier raises"
HandlerDecision_retriesAnyError(r, m, e) ==
    IF r >= m THEN "give up"
    ELSE CASE is_retryable_error(e) = "AttributeError" -> "classifier raises"
           [] OTHER -> "sleep"
HandlerDecision(r, m, e) ==
    IF r >= m THEN "give up"
    ELSE CASE is_retryable_error(e) = "True" -> "sleep"
           [] is_retryable_error(e) = "False" -> "give up"
           [] OTHER -> "classifier raises"

\* What leaves the wrapper when it gives up on error e of function name.
Surfaced_withoutCause(name, e) ==
    IF e.cls \in PRAWExceptionClasses
    THEN IF Contains(e.msg, <<"401">>) \/ Contains(e.msg, <<"403">>)
         THEN [cls |-> "APIAuthenticationError", response |-> "<absent>",
               msg |-> <<"Authentication", "failed", "during", name>> \o e.msg,
               cause |-> <<>>]
         ELSE IF name = "fetch_post_data"
         THEN [cls |-> "PostRetrievalError", response |-> "<absent>",
               msg |-> <<"API", "error", "in", name>> \o e.msg, cause |-> <<>>]
         ELSE IF name = "fetch_comments_data"
         THEN [cls |-> "CommentRetrievalError", response |-> "<absent>",
               msg |-> <<"API", "error", "in", name>> \o e.msg, cause |-> <<>>]
         ELSE e
    ELSE e
Surfaced(name, e) ==
    IF e.cls \in PRAWExceptionClasses
    THEN IF Contains(e.msg, <<"401">>) \/ Contains(e.msg, <<"403">>)
         THEN RaisedFrom("APIAuthenticationError",
                         <<"Authentication", "failed", "during", name>> \o e.msg, e)
         ELSE IF name = "fetch_post_data"
         THEN RaisedFrom("PostRetrievalError", <<"API", "error", "in", name>> \o e.msg, e)
         ELSE IF name = "fetch_comments_data"
         THEN RaisedFrom("CommentRetrievalError", <<"API", "error", "in", name>> \o e.msg, e)
         ELSE e   \* bare `raise`
    ELSE e       \* bare `raise`

\* random.uniform(0, current_delay * 0.1), in tenths of a second.
JitterRange(delay) == 0..(delay \div 10)

\* actual_delay = min(current_delay + jitter, max_delay)
ActualDelay(delay, j, cap) == Min(delay + j, cap)

\* current_delay = min(current_delay * 2, max_delay)
NextDelay_linear(delay, cap) == Min(delay + 20, cap)
NextDelay(delay, cap) == Min(delay * 2, cap)

\* KeyboardInterrupt raised inside time.sleep: it is no Exception, and the
\* sleep stands in the except clause, outside the try: it leaves the wrapper.
AfterAbortInSleep_swallowed == "calling"
AfterAbortInSleep == "aborted"

(***************************************************************************)
(* Spec: one call of a wrapped function                                    *)
(***************************************************************************)

\* Largest max_retries the decorator is tried with.
MaxRetriesBound == 3

BaseDelays == {0, Seconds(1), DefaultBaseDelay, Seconds(40)}
MaxDelays == {Seconds(5), DefaultMaxDelay}
FuncNames == {"fetch_post_data", "fetch_comments_data", "helper"}

\* The errors the wrapped function is let raise.
OpErrors == {
    Error("RedditAPIException", "<absent>", <<"rate", "limit">>),
    Error("RedditAPIException", "<absent>", <<"403", "forbidden">>),
    Error("RedditAPIException", "<absent>", <<"401", "timeout">>),
    Error("ClientException", "<absent>", <<"invalid">>),
    Error("ResponseException", "503", <<"Received", "503", "HTTP", "response">>),
    Error("ResponseException", "404", <<"Received", "404", "HTTP", "response">>),
    RaisedFrom("PostRetrievalError", <<"post", "timeout">>,
               Error("RequestException", "<absent>", <<"timeout">>)),
    Error("Exception", "<absent>", <<"bad", "value">>),
    Error("RequestException", "<no status_code>", <<"error">>) }

ClassifierIdle ==
    /\ cl_pc = "idle" /\ cl_error = NoError /\ cl_result = "None"

Init ==
    /\ ClassifierIdle
    /\ TreeIdle
    /\ MediaIdle
    /\ MainIdle
    /\ FetchIdle
    /\ praw_importable = TRUE        \* data_retriever imports praw itself
    /\ max_retries \in 0..MaxRetriesBound
    /\ base_delay \in BaseDelays
    /\ max_delay \in MaxDelays
    /\ func_name \in FuncNames
    /\ pc = "calling"
    /\ retries = 0
    /\ current_delay = base_delay
    /\ jitter = 0 /\ actual_delay = 0
    /\ last_error = <<>> /\ raised = <<>> /\ returned = <<>>
    /\ attempts = 0 /\ sleeps = 0 /\ failures = 0
    /\ all_retryable = TRUE /\ prev_delay = <<>> /\ abort = FALSE
    /\ calls = 1 /\ spent = <<>>

policy_vars == <<max_retries, base_delay, max_delay, func_name>>

\* An attempt raises e: the bookkeeping every failing attempt shares.
Fails(e) ==
    /\ pc = "calling"
    /\ attempts' = attempts + 1
    /\ failures' = failures + 1
    /\ last_error' = <<e>>
    /\ all_retryable' = (all_retryable /\ is_retryable_error(e) = "True")

\* return func(*args, **kwargs)
AttemptReturns ==
    /\ pc = "calling"
    /\ attempts' = attempts + 1
    /\ returned' = <<"value">>
    /\ pc' = "returned"
    /\ UNCHANGED <<fetch_vars, cl_vars, tree_vars, media_vars, main_vars, praw_importable,
                   policy_vars, call_vars, retries, current_delay,
                   jitter, actual_delay, last_error, raised, sleeps, failures,
                   all_retryable, prev_delay, abort>>

\* func raises and the handler gives up.
AttemptGivesUp ==
    \E e \in OpErrors :
        /\ Fails(e)
        /\ HandlerDecision(retries, max_retries, e) = "give up"
        /\ raised' = <<Surfaced(func_name, e)>>
        /\ pc' = "raised"
        /\ UNCHANGED <<fetch_vars, cl_vars, tree_vars, media_vars, main_vars, praw_importable,
                   policy_vars, call_vars, retries, current_delay,
                       jitter, actual_delay, returned, sleeps, prev_delay, abort>>

\* func raises and is_retryable_error raises in the handler.
AttemptClassifierRaises ==
    \E e \in OpErrors :
        /\ Fails(e)
        /\ HandlerDecision(retries, max_retries, e) = "classifier raises"
        /\ raised' = <<Error("AttributeError", "<absent>", <<"status_code">>)>>
        /\ pc' = "raised"
        /\ UNCHANGED <<fetch_vars, cl_vars, tree_vars, media_vars, main_vars, praw_importable,
                   policy_vars, call_vars, retries, current_delay,
                       jitter, actual_delay, returned, sleeps, prev_delay, abort>>

\* func raises and the handler goes to sleep.
AttemptSleeps ==
    \E e \in OpErrors :
        /\ Fails(e)
        /\ HandlerDecision(retries, max_retries, e) = "sleep"
        /\ \E j \in JitterRange(current_delay) :
              /\ jitter' = j
              /\ actual_delay' = ActualDelay(current_delay, j, max_delay)
        /\ sleeps' = sleeps + 1
        /\ pc' = "sleeping"
        /\ UNCHANGED <<fetch_vars, cl_vars, tree_vars, media_vars, main_vars, praw_importable,
                   policy_vars, call_vars, retries, current_delay,
                       raised, returned, prev_delay, abort>>

\* `retries += 1`
RetriesAfterSleep_unchanged(r) == r
RetriesAfterSleep(r) == r + 1

\* time.sleep returns: retries += 1, the delay doubles, the loop goes round.
SleepEnds ==
    /\ pc = "sleeping"
    /\ retries' = RetriesAfterSleep(retries)
    /\ prev_delay' = <<current_delay>>
    /\ current_delay' = NextDelay(current_delay, max_delay)
    /\ pc' = "calling"
    /\ UNCHANGED <<fetch_vars, cl_vars, tree_vars, media_vars, main_vars, praw_importable,
                   policy_vars, call_vars, jitter, actual_delay,
                   last_error, raised, returned, attempts, sleeps, failures,
                   all_retryable, abort>>

\* The request is aborted while the wrapper sleeps.
AbortDuringSleep ==
    /\ pc = "sleeping"
    /\ abort' = TRUE
    /\ pc' = AfterAbortInSleep
    /\ UNCHANGED <<fetch_vars, cl_vars, tree_vars, media_vars, main_vars, praw_importable,
                   policy_vars, call_vars, retries, current_delay,
                   jitter, actual_delay, last_error, raised, returned, attempts,
                   sleeps, failures, all_retryable, prev_delay>>

Next ==
    \/ AttemptReturns
    \/ AttemptGivesUp
    \/ AttemptClassifierRaises
    \/ AttemptSleeps
    \/ SleepEnds
    \/ AbortDuringSleep

Spec == Init /\ [][Next]_vars

\* The same call where every attempt and every sleep comes to its end: a
\* step that can be taken is taken.
SpecFair == Spec /\ WF_vars(Next)

(***************************************************************************)
(* SpecCalls: the wrapped function is called again after a call ended.     *)
(* retries and current_delay are locals of wrapper, set in its first two   *)
(* statements, so every call begins with them anew.                        *)
(***************************************************************************)

MaxCalls == 2

\* `retries = 0` at the head of wrapper
FreshRetries_carriedOver == retries
FreshRetries == 0

\* `current_delay = base_delay` at the head of wrapper
FreshDelay == base_delay

InitCalls ==
    /\ Init
    /\ base_delay \in {Seconds(1), DefaultBaseDelay}
    /\ max_delay = DefaultMaxDelay
    /\ func_name = "fetch_post_data"

\* The caller calls the wrapped function once more.
CallAgain ==
    /\ pc \in {"returned", "raised"}
    /\ calls < MaxCalls
    /\ calls' = calls + 1
    /\ spent' = <<retries>>
    /\ retries' = FreshRetries
    /\ current_delay' = FreshDelay
    /\ pc' = "calling"
    /\ jitter' = 0 /\ actual_delay' = 0
    /\ last_error' = <<>> /\ raised' = <<>> /\ returned' = <<>>
    /\ attempts' = 0 /\ sleeps' = 0 /\ failures' = 0
    /\ all_retryable' = TRUE /\ prev_delay' = <<>>
    /\ UNCHANGED <<fetch_vars, cl_vars, tree_vars, media_vars, main_vars, praw_importable,
                   policy_vars, abort>>

NextCalls == Next \/ CallAgain

SpecCalls == InitCalls /\ [][NextCalls]_vars

\* C24: the retry state belongs to the call: every call of the wrapped
\* function begins with retries = 0 and current_delay = base_delay, and a
\* call that follows one which used retries has the whole budget, giving up
\* on retryable errors only after max_retries + 1 attempts of its own.
C24_RetryStatePerCall ==
    /\ (pc = "calling" /\ attempts = 0) =>
          (retries = 0 /\ current_delay = base_delay)
    /\ pc \in {"calling", "returned", "raised"} => retries = sleeps
    /\ (pc = "raised" /\ all_retryable) =>
          (attempts = max_retries + 1 /\ retries = max_retries)

\* C24 witness: the call before used up all retries of a budget of at least
\* two, and the call after it begins with no retry counted and the base delay.
C24_Witness ==
    /\ calls = 2 /\ max_retries >= 2 /\ spent = <<max_retries>>
    /\ pc = "calling" /\ attempts = 0
    /\ retries = 0 /\ current_delay = base_delay

(***************************************************************************)
(* Properties of retry_with_backoff (checked under Spec)                   *)
(***************************************************************************)

\* C1: wrapping an operation that fails every time with a retryable error,
\* the wrapper invokes it exactly max_retries + 1 times and only then raises;
\* no call ever makes a (max_retries + 2)-th attempt.
C1_ExactlyMaxRetriesPlusOne ==
    /\ attempts <= max_retries + 1
    /\ (pc = "raised" /\ all_retryable) =>
            (attempts = max_retries + 1 /\ failures = attempts)

\* C1 witness: the default max_retries = 3 ends after 4 failed attempts.
C1_Witness ==
    /\ pc = "raised" /\ all_retryable
    /\ max_retries = DefaultMaxRetries
    /\ attempts = 4 /\ failures = 4

\* The wrapper gave up on the last error: the retries were used up, or the
\* classifier called the error non-retryable.
GaveUp ==
    /\ pc = "raised"
    /\ last_error # <<>>
    /\ \/ retries >= max_retries
       \/ is_retryable_error(last_error[1]) = "False"

DomainFailures == {"PostRetrievalError", "CommentRetrievalError", "APIAuthenticationError"}

\* C2 (as stated): whenever the wrapper gives up, what it raises is a
\* translated domain failure whose cause is the last error of the operation.
C2_AsStated ==
    GaveUp => (raised[1].cls \in DomainFailures /\ raised[1].cause = last_error)

\* C2 (amended): when the wrapper gives up on a PRAWException it raises
\* APIAuthenticationError (text holds 401 or 403), PostRetrievalError (function
\* named fetch_post_data) or CommentRetrievalError (fetch_comments_data), with
\* the last error as cause; in every other case it re-raises the last error
\* itself, unchanged.
C2_TranslatedOrReraised ==
    GaveUp =>
        LET e == last_error[1]
            x == raised[1]
            auth == \E i \in 1..Len(e.msg) : e.msg[i] \in {"401", "403"}
        IN  IF e.cls \in {"RedditAPIException", "ClientException"}
               /\ (auth \/ func_name \in {"fetch_post_data", "fetch_comments_data"})
            THEN /\ x.cause = <<e>>
                 /\ x.cls = IF auth THEN "APIAuthenticationError"
                            ELSE IF func_name = "fetch_post_data" THEN "PostRetrievalError"
                            ELSE "CommentRetrievalError"
            ELSE x = e

\* C2 witness: retries used up on a PRAW error in fetch_post_data (translated,
\* cause kept), or a non-PRAW error given up on at once (re-raised as it is).
C2_Witness ==
    /\ GaveUp
    /\ \/ /\ func_name = "fetch_post_data"
          /\ retries = max_retries /\ max_retries >= 1
          /\ last_error[1].cls = "RedditAPIException"
          /\ raised[1].cls = "PostRetrievalError"
          /\ raised[1].cause = last_error
       \/ /\ last_error[1].cls = "Exception"
          /\ raised = last_error

\* C3: an operation that fails k times (1 <= k <= max_retries) with retryable
\* errors is tried again, and when it then succeeds the wrapper returns the
\* value after exactly k + 1 attempts and surfaces no error.
C3_RecoversAfterTransientFailures ==
    /\ (failures >= 1 /\ failures <= max_retries /\ all_retryable /\ ~abort)
            => pc \in {"sleeping", "calling", "returned"}
    /\ pc = "returned" =>
            /\ attempts = failures + 1
            /\ failures = retries /\ failures <= max_retries
            /\ all_retryable
            /\ returned = <<"value">> /\ raised = <<>>

\* C3 witness: one transient failure, then success on the second attempt.
C3_Witness ==
    /\ pc = "returned" /\ failures = 1 /\ attempts = 2
    /\ returned = <<"value">> /\ raised = <<>>

\* C4: an attempt that fails with a non-retryable error is the last one: the
\* wrapper raises at once, without a sleep, and does nothing after raising.
C4_FatalErrorStopsAtOnce ==
    [][ /\ (/\ pc = "calling"
            /\ failures' = failures + 1
            /\ is_retryable_error(last_error'[1]) = "False")
                => (pc' = "raised" /\ sleeps' = sleeps)
        /\ (pc = "raised") => (attempts' = attempts /\ sleeps' = sleeps) ]_vars

\* C4 witness: a first-attempt non-retryable failure with retries left gives
\* one attempt and no sleep.
C4_Witness ==
    /\ pc = "raised" /\ attempts = 1 /\ sleeps = 0
    /\ max_retries >= 1
    /\ is_retryable_error(last_error[1]) = "False"

\* d_1 = base_delay, d_(k+1) = min(2 * d_k, max_delay)
RECURSIVE UnjitteredDelay(_)
UnjitteredDelay(k) ==
    IF k = 1 THEN base_delay ELSE Min(2 * UnjitteredDelay(k - 1), max_delay)

\* The sleep before the k-th retry is min(d_k + jitter, max_delay) with
\* 0 <= jitter <= 0.1 * d_k, hence at most max_delay.
SleepFormula ==
    pc = "sleeping" =>
        /\ sleeps = retries + 1
        /\ current_delay = UnjitteredDelay(sleeps)
        /\ 0 <= jitter /\ 10 * jitter <= current_delay
        /\ actual_delay = Min(current_delay + jitter, max_delay)
        /\ actual_delay <= max_delay

\* C5 (as stated): the sleep formula, and the un-jittered delays never decrease.
C5_AsStated ==
    /\ SleepFormula
    /\ prev_delay # <<>> => prev_delay[1] <= current_delay

\* C5 (amended): the sleep formula (for non-negative delays), and the
\* un-jittered delays never decrease provided base_delay <= max_delay.
C5_BackoffDelays ==
    /\ SleepFormula
    /\ (prev_delay # <<>> /\ base_delay <= max_delay) => prev_delay[1] <= current_delay

\* C5 witness: the defaults sleep on 2, 4, 8 seconds; here the third sleep,
\* with some jitter.
C5_Witness ==
    /\ pc = "sleeping" /\ sleeps = 3
    /\ base_delay = DefaultBaseDelay /\ max_delay = DefaultMaxDelay
    /\ prev_delay = <<Seconds(4)>> /\ current_delay = Seconds(8)
    /\ jitter > 0 /\ actual_delay = Seconds(8) + jitter

\* C6: once the request is aborted during a sleep, the sleep is over and the
\* wrapped operation is never invoked again.
C6_AbortEndsTheCall ==
    [][ /\ abort' => pc' # "sleeping"
        /\ abort => attempts' = attempts ]_vars

\* C6 witness: aborted in a sleep while retries were left.
C6_Witness ==
    /\ abort /\ pc = "aborted"
    /\ attempts >= 1 /\ retries < max_retries

\* The call is over: it returned, raised, or was aborted in a sleep.
CallOver == pc \in {"returned", "raised", "aborted"}

\* The counts of a call: at most max_retries + 1 attempts and max_retries
\* sleeps; a sleep after every attempt but the last.
AttemptsAndSleeps ==
    /\ attempts <= max_retries + 1
    /\ sleeps <= max_retries
    /\ pc = "calling" => sleeps = attempts
    /\ pc = "sleeping" => sleeps = attempts /\ attempts >= 1
    /\ pc \in {"returned", "raised"} => sleeps = attempts - 1

\* C28: every call of a wrapped function whose attempts come to an end
\* returns or raises, after at most max_retries + 1 attempts and at most
\* max_retries sleeps, whatever the attempts do; when it returns or raises
\* it has slept once less than it has attempted, so no sleep follows the
\* last attempt.
C28_CallTerminates == []AttemptsAndSleeps /\ <>CallOver

\* C28 witness: a call that needed its whole budget returned on the last
\* attempt allowed, after max_retries sleeps.
C28_Witness ==
    /\ pc = "returned" /\ max_retries >= 2
    /\ attempts = max_retries + 1 /\ sleeps = max_retries

(***************************************************************************)
(* The comment tree: _process_comment and the body of fetch_comments_data  *)
(*                                                                         *)
(* The source's forest has nodes 1..n; parent[i] < i is the node that i    *)
(* replies to, 0 for a top-level item; siblings come in the order of their *)
(* numbers.  kind[i] is "Comment" (a comment with body and author),        *)
(* "Deleted" (a comment whose author is None) or "MoreComments".           *)
(***************************************************************************)

\* Most items the source holds.
MaxNodes == 3
\* Largest finite comment_depth tried.
MaxDepthBound == 2

Kinds == {"Comment", "Deleted", "MoreComments"}

RECURSIVE ChildrenFrom(_, _)
ChildrenFrom(c, i) ==
    IF i > forest.n THEN <<>>
    ELSE IF forest.parent[i] = c THEN <<i>> \o ChildrenFrom(c, i + 1)
    ELSE ChildrenFrom(c, i + 1)

\* comment.replies (after replace_more), submission.comments for c = 0
Children(c) == ChildrenFrom(c, 1)

\* `not hasattr(comment, 'body') or comment.author is None`, then the
\* isinstance test for MoreComments: the item is skipped.
Skipped_onlyPlaceholders(c) == forest.kind[c] = "MoreComments"
Skipped(c) == forest.kind[c] # "Comment"

\* `max_depth is not None and depth >= max_depth`
DepthReached_offByOne(depth, max_depth) == max_depth # <<>> /\ depth > max_depth[1]
DepthReached(depth, max_depth) == max_depth # <<>> /\ depth >= max_depth[1]

\* comment_data_to_return: the fields of the dictionary the model follows.
CommentData(c, depth, replies) ==
    [id |-> c, score |-> forest.score[c], depth |-> depth, replies |-> replies]

\* `except Exception` around replace_more and the loop over comment.replies:
\* a failure while the replies are expanded stays inside _process_comment.
CatchesReplyErrors_propagates == FALSE
CatchesReplyErrors == TRUE

\* list.append of what a call of _process_comment returned (nothing for None)
Appended_inFront(list, data) == data \o list
Appended(list, data) == list \o data

\* The depth handed to the call for a reply: `depth + 1`
ReplyDepth_same(depth) == depth
ReplyDepth(depth) == depth + 1

\* _process_comment: out is <<>> for None, else <<the comment's dictionary>>;
\* raised tells that an exception left the call instead.
RECURSIVE process_comment(_, _, _)
RECURSIVE process_replies(_, _, _, _, _)
process_comment(c, depth, max_depth) ==
    IF Skipped(c) THEN [out |-> <<>>, raised |-> FALSE]
    ELSE IF DepthReached(depth, max_depth)
    THEN [out |-> << CommentData(c, depth, <<>>) >>, raised |-> FALSE]
    ELSE LET r == process_replies(c, 0, <<>>, ReplyDepth(depth), max_depth)
         IN  IF r.raised /\ ~CatchesReplyErrors
             THEN [out |-> <<>>, raised |-> TRUE]
             ELSE [out |-> << CommentData(c, depth, r.replies) >>, raised |-> FALSE]

\* The loop over comment.replies, k items in: what is not None is appended;
\* the loop ends where the listing fails or a nested call raises.
process_replies(c, k, replies, depth, max_depth) ==
    IF fail_at = <<c, k>> THEN [replies |-> replies, raised |-> TRUE]
    ELSE IF k = Len(Children(c)) THEN [replies |-> replies, raised |-> FALSE]
    ELSE LET processed_reply_data == process_comment(Children(c)[k + 1], depth, max_depth)
         IN  IF processed_reply_data.raised
             THEN [replies |-> replies, raised |-> TRUE]
             ELSE process_replies(c, k + 1, Appended(replies, processed_reply_data.out),
                                  depth, max_depth)

\* `if comment_data: append; processed_top_level_count += 1`
Counted_everyItem(comment_data) == 1
Counted(comment_data) == Len(comment_data)

\* The loop over submission.comments, k items in: the next item is taken from
\* the listing, then the loop stops at num_comments processed comments.
RECURSIVE top_level_loop(_, _, _)
top_level_loop(k, comments_data_list, processed_top_level_count) ==
    IF fail_at = <<0, k>> THEN [list |-> comments_data_list, raised |-> TRUE]
    ELSE IF k = Len(Children(0)) \/ processed_top_level_count >= num_comments
    THEN [list |-> comments_data_list, raised |-> FALSE]
    ELSE LET top_level_comment == Children(0)[k + 1]
             comment_data ==
                IF forest.kind[top_level_comment] = "MoreComments"
                THEN [out |-> <<>>, raised |-> FALSE]
                ELSE process_comment(top_level_comment, 0, comment_depth)
         IN  IF comment_data.raised
             THEN [list |-> comments_data_list, raised |-> TRUE]
             ELSE top_level_loop(k + 1,
                                 Appended(comments_data_list, comment_data.out),
                                 processed_top_level_count + Counted(comment_data.out))

\* `actual_praw_sort`: 'score' is fetched as 'top', an unknown order as 'best'.
valid_praw_sorts == {"best", "top", "new", "controversial", "old", "q&a"}
actual_praw_sort ==
    LET lowered == IF Lower(sort_order) = "score" THEN "top" ELSE Lower(sort_order)
    IN  IF lowered \in valid_praw_sorts THEN lowered ELSE "best"

\* list.sort(key=score, reverse=True): stable, the larger score first.
RECURSIVE SortedByScore(_)
InsertByScore(x, sorted) ==
    LET before == SelectSeq(sorted, LAMBDA y : y.score >= x.score)
        after  == SelectSeq(sorted, LAMBDA y : y.score < x.score)
    IN  before \o <<x>> \o after
SortedByScore(list) ==
    IF list = <<>> THEN <<>>
    ELSE InsertByScore(list[Len(list)], SortedByScore(SubSeq(list, 1, Len(list) - 1)))

\* The lines after the loop: for 'score' the list is sorted again only if the
\* listing was not fetched as 'top', and is cut to num_comments.
AfterLoop(comments_data_list) ==
    IF Lower(sort_order) = "score"
    THEN LET resorted == IF actual_praw_sort # "top"
                         THEN SortedByScore(comments_data_list)
                         ELSE comments_data_list
         IN  SubSeq(resorted, 1, Min(num_comments, Len(resorted)))
    ELSE comments_data_list

\* `processed_top_level_count = 0` at the head of the try block
StartCount_carriedOver == fetch_retries
StartCount == 0

\* The body of fetch_comments_data: the list, or raised if an error left it;
\* collected is the local comments_data_list as the body leaves it behind.
fetch_comments_data ==
    LET looped == top_level_loop(0, <<>>, StartCount)
    IN  IF looped.raised
        THEN [list |-> <<>>, raised |-> TRUE, collected |-> looped.list]
        ELSE [list |-> AfterLoop(looped.list), raised |-> FALSE,
              collected |-> AfterLoop(looped.list)]

(***************************************************************************)
(* SpecTree, SpecTreeSort, SpecTreeFail: one call of fetch_comments_data   *)
(***************************************************************************)

Shapes(k) == { f \in [1..k -> 0..(k - 1)] : \A i \in 1..k : f[i] < i }

\* The forests of at most MaxNodes items, of any kind, one score for all.
Forests ==
    UNION { { [n |-> k, parent |-> p, kind |-> q, score |-> [i \in 1..k |-> 1]] :
                p \in Shapes(k), q \in [1..k -> Kinds] } : k \in 0..MaxNodes }

\* Most items of a forest whose scores vary.
MaxScored == 3
Scores == {1, 2, 3}

\* The forests of at most MaxScored comments with scores of their own.
ScoredForests ==
    UNION { { [n |-> k, parent |-> p, kind |-> [i \in 1..k |-> "Comment"], score |-> q] :
                p \in Shapes(k), q \in [1..k -> Scores] } : k \in 0..MaxScored }

\* Most items of a forest in which a listing of replies fails.
MaxFailNodes == 4

\* The forests of at most MaxFailNodes comments, deleted ones among them.
FailForests ==
    UNION { { [n |-> k, parent |-> p, kind |-> q, score |-> [i \in 1..k |-> 1]] :
                p \in Shapes(k), q \in [1..k -> {"Comment", "Deleted"}] } :
            k \in 0..MaxFailNodes }

\* A MoreComments placeholder has no replies of its own.
WellFormed(f) == \A i \in 1..f.n : f.parent[i] # 0 => f.kind[f.parent[i]] # "MoreComments"

\* 1000 is what main passes for "all".
NumComments == {1, 2, 1000}

SortOrders == {"best", "top", "score", "Score", "hot"}

InitTree ==
    /\ ClassifierIdle
    /\ praw_importable = TRUE
    /\ RetryIdle
    /\ MediaIdle
    /\ MainIdle
    /\ FetchIdle
    /\ forest \in { f \in Forests : WellFormed(f) }
    /\ fail_at = <<>>
    /\ sort_order \in {"best", "score"}
    /\ comment_depth \in {<<>>} \cup { <<m>> : m \in 0..MaxDepthBound }
    /\ num_comments \in NumComments
    /\ tree_pc = "ready"
    /\ tree_result = <<>>

InitTreeSort ==
    /\ ClassifierIdle
    /\ praw_importable = TRUE
    /\ RetryIdle
    /\ MediaIdle
    /\ MainIdle
    /\ FetchIdle
    /\ forest \in ScoredForests
    /\ fail_at = <<>>
    /\ sort_order \in SortOrders
    /\ comment_depth \in {<<>>, <<0>>}
    /\ num_comments \in NumComments
    /\ tree_pc = "ready"
    /\ tree_result = <<>>

InitTreeFail ==
    /\ ClassifierIdle
    /\ praw_importable = TRUE
    /\ RetryIdle
    /\ MediaIdle
    /\ MainIdle
    /\ FetchIdle
    /\ forest \in FailForests
    /\ fail_at \in { <<c, k>> \in (0..forest.n) \X (0..forest.n) :
                        k <= Len(ChildrenFrom(c, 1)) }
    /\ sort_order = "best"
    /\ comment_depth \in {<<>>, <<1>>}
    /\ num_comments \in {1, 1000}
    /\ tree_pc = "ready"
    /\ tree_result = <<>>

FetchComments ==
    /\ tree_pc = "ready"
    /\ tree_result' = fetch_comments_data.list
    /\ tree_pc' = IF fetch_comments_data.raised THEN "raised" ELSE "done"
    /\ UNCHANGED <<fetch_vars, cl_vars, praw_importable, retry_vars, media_vars, main_vars,
                   forest,
                   fail_at, sort_order, comment_depth, num_comments>>

NextTree == FetchComments

SpecTree == InitTree /\ [][NextTree]_vars

SpecTreeSort == InitTreeSort /\ [][NextTree]_vars

SpecTreeFail == InitTreeFail /\ [][NextTree]_vars

(***************************************************************************)
(* Properties of the comment tree (checked under SpecTree)                 *)
(***************************************************************************)

\* The nodes of a list of trees, each with the level it is nested at.
RECURSIVE NodesAt(_, _)
NodesAt(trees, level) ==
    UNION { {<<trees[i], level>>} \cup NodesAt(trees[i].replies, level + 1) :
              i \in 1..Len(trees) }

Ids(list) == [i \in 1..Len(list) |-> list[i].id]

\* The items among `items` that are comments with body and author.
Valid(items) == SelectSeq(items, LAMBDA c : forest.kind[c] = "Comment")

\* C11: fetch_comments_data returns exactly min(num_comments, V) top-level
\* nodes, V being the number of valid comments the source yields at the top
\* level, and they are the first valid comments in the source's order:
\* placeholders and deleted comments met on the way use up none of num_comments.
C11_FirstValidComments ==
    tree_pc = "done" =>
        /\ Len(tree_result) = Min(num_comments, Len(Valid(Children(0))))
        /\ Ids(tree_result) = SubSeq(Valid(Children(0)), 1, Len(tree_result))

\* C11 witness: the source yields a placeholder or deleted comment first and
\* more valid comments than num_comments; exactly num_comments nodes return.
C11_Witness ==
    /\ tree_pc = "done"
    /\ Children(0) # <<>> /\ forest.kind[Children(0)[1]] # "Comment"
    /\ num_comments < Len(Valid(Children(0)))
    /\ Len(tree_result) = num_comments

\* C12: with sort_order = 'score' the top-level list that fetch_comments_data
\* returns has non-increasing scores, whatever order the source delivers the
\* comments in.
C12_ScoresNonIncreasing ==
    (tree_pc = "done" /\ Lower(sort_order) = "score") =>
        \A i, j \in 1..Len(tree_result) :
            i < j => tree_result[i].score >= tree_result[j].score

\* The list of nodes holds exactly the given items of the source, in their
\* order, and so does every replies list below it.
RECURSIVE Mirrors(_, _)
Mirrors(list, items) ==
    /\ Ids(list) = items
    /\ \A i \in 1..Len(list) : Mirrors(list[i].replies, Children(items[i]))

\* The call the claim C13 is about: every top-level item is a valid comment,
\* the forest holds no placeholder, num_comments covers the top level, the
\* depth is unlimited and the sort order is not 'score'.
C13_Case ==
    /\ tree_pc = "done"
    /\ \A c \in 1..forest.n : forest.kind[c] # "MoreComments"
    /\ \A i \in 1..Len(Children(0)) : forest.kind[Children(0)[i]] = "Comment"
    /\ num_comments >= Len(Children(0))
    /\ comment_depth = <<>>
    /\ Lower(sort_order) # "score"

C14_SkippedNowhere ==
    tree_pc = "done" =>
        /\ \A nl \in NodesAt(tree_result, 0) :
            /\ forest.kind[nl[1].id] = "Comment"
            /\ \A i \in 1..Len(nl[1].replies) :
                  /\ forest.parent[nl[1].replies[i].id] = nl[1].id
                  /\ forest.kind[nl[1].replies[i].id] = "Comment"
            /\ Len(nl[1].replies) <= Len(Valid(Children(nl[1].id)))
        /\ Len(Valid(Children(0))) >= num_comments => Len(tree_result) = num_comments

\* C14 witness: a returned comment has a deleted reply and a placeholder
\* among its replies in the source and an empty replies list in the tree.
C14_Witness ==
    /\ tree_pc = "done" /\ comment_depth = <<>>
    /\ \E nl \in NodesAt(tree_result, 0) :
          /\ \E i, j \in 1..Len(Children(nl[1].id)) :
                /\ forest.kind[Children(nl[1].id)[i]] = "Deleted"
                /\ forest.kind[Children(nl[1].id)[j]] = "MoreComments"
          /\ nl[1].replies = <<>>

\* C15: if listing the replies of a comment fails after some of them were
\* collected, _process_comment still returns the comment, with exactly the
\* replies collected before the failure; no error leaves fetch_comments_data
\* (so nothing is retried) and the top-level siblings that follow are
\* processed as without the failure.
C15_PartialRepliesKept ==
    (tree_pc # "ready" /\ fail_at # <<>> /\ fail_at[1] # 0) =>
        /\ tree_pc = "done"
        /\ Ids(tree_result) =
              SubSeq(Valid(Children(0)), 1, Min(num_comments, Len(Valid(Children(0)))))
        /\ \A nl \in NodesAt(tree_result, 0) :
              (nl[1].id = fail_at[1] /\ ~DepthReached(nl[1].depth, comment_depth)) =>
                  Ids(nl[1].replies) =
                      Valid(SubSeq(Children(fail_at[1]), 1, fail_at[2]))

\* C15 witness: the first top-level comment has two valid replies and their
\* listing fails after the first; the comment is returned with that one reply
\* and the top-level comment after it is returned too.
C15_Witness ==
    /\ tree_pc = "done" /\ fail_at = <<1, 1>>
    /\ Len(Valid(Children(1))) = 2
    /\ Len(tree_result) = 2
    /\ tree_result[1].id = 1 /\ Len(tree_result[1].replies) = 1

(***************************************************************************)
(* The media classifier: extract_media_info                                *)
(*                                                                         *)
(* submission holds what the function reads of the post:                   *)
(*   is_gallery      "absent" (no such attribute) | "True" | "False"       *)
(*   media_metadata  the entries of the dictionary in its order, <<>> for  *)
(*                   a missing or empty one; an entry is "Image" or        *)
(*                   "Video" (that kind, with a source `s`), "Unusable"    *)
(*                   (another kind, or no source) or "Malformed" (kind     *)
(*                   Image with a source that is no dictionary)            *)
(*   is_video, is_self                                                     *)
(*   reddit_video    media is there and holds 'reddit_video'               *)
(*   preview         "absent" | "images" (a non-empty list whose first     *)
(*                   entry has a source) | "Malformed" (first entry        *)
(*                   without 'source')                                     *)
(*   domain, url     url is <<stem, extension>>                            *)
(*   oembed          "absent" | "YouTube video" | "other" | "Malformed"    *)
(*                   (secure_media['oembed'] is no dictionary)             *)
(* A returned item is [type, id]: id is the entry's place in               *)
(* media_metadata for a gallery item and 0 otherwise.                      *)
(***************************************************************************)

\* Most entries of media_metadata.
MaxGalleryItems == 3
\* Most entries of media_metadata when an entry may be malformed.
MaxFaultyItems == 2

Item(type, id) == [type |-> type, id |-> id]

image_extensions == {".jpg", ".jpeg", ".png", ".gif"}

\* `any(submission.url.lower().endswith(ext) for ext in image_extensions)`
HasImageExtension(url) == url # <<>> /\ Lower(url[Len(url)]) \in image_extensions

\* The state of a call: the list built so far and how the body goes on,
\* "on" | "return" (a return statement was reached) | "error" (an exception
\* was raised inside the try).
Going(media) == [media |-> media, how |-> "on"]
Returning(media) == [media |-> media, how |-> "return"]
Failing(media) == [media |-> media, how |-> "error"]

\* The loop over media_metadata.items(), k entries in.
RECURSIVE gallery_loop(_, _, _)
gallery_loop(items, k, media) ==
    IF k = Len(items) THEN Going(media)
    ELSE CASE items[k + 1] = "Image" ->
                gallery_loop(items, k + 1, Append(media, Item("image_gallery_item", k + 1)))
           [] items[k + 1] = "Video" ->
                gallery_loop(items, k + 1, Append(media, Item("animated_gallery_item", k + 1)))
           [] items[k + 1] = "Malformed" -> Failing(media)
           [] OTHER -> gallery_loop(items, k + 1, media)

\* Rule 1, galleries: return only with at least one item.
rule_gallery_goesOn(s) == gallery_loop(s.media_metadata, 0, <<>>)
rule_gallery(s) ==
    LET looped == gallery_loop(s.media_metadata, 0, <<>>)
    IN  IF looped.how = "on" /\ looped.media # <<>> THEN Returning(looped.media)
        ELSE looped

\* Rule 2, Reddit video.
rule_reddit_video(s) == Returning(<< Item("reddit_video", 0) >>)

\* Rule 3, a post with preview images: a direct image is returned at once, an
\* image link is appended and the body goes on.
rule_preview(s) ==
    IF s.domain \in {"i.redd.it", "i.imgur.com"}
    THEN IF s.preview = "Malformed" THEN Failing(<<>>)
         ELSE Returning(<< Item("image", 0) >>)
    ELSE IF ~s.is_self /\ s.url # <<>> /\ ~s.is_video
    THEN IF HasImageExtension(s.url) /\ s.domain # "v.redd.it"
         THEN IF s.preview = "Malformed" THEN Failing(<<>>)
              ELSE Going(<< Item("image_link", 0) >>)
         ELSE Going(<<>>)
    ELSE Going(<<>>)

\* The if / elif / elif chain of rules 1 to 3: one branch at most is entered.
first_rules(s) ==
    IF s.is_gallery = "True" /\ s.media_metadata # <<>> THEN rule_gallery(s)
    ELSE IF s.is_video /\ s.reddit_video THEN rule_reddit_video(s)
    ELSE IF s.preview # "absent" THEN rule_preview(s)
    ELSE Going(<<>>)

\* Rule 4, oEmbed: a YouTube video is appended to the list and the list is returned.
rule_embed(s, media) ==
    CASE s.oembed = "absent" -> Going(media)
      [] s.oembed = "Malformed" -> Failing(media)
      [] s.oembed = "YouTube video" -> Returning(Append(media, Item("youtube_video_embed", 0)))
      [] OTHER -> Going(media)

\* Rule 5, the fallback: `not submission.is_gallery` reads the attribute
\* without hasattr and raises AttributeError where the post has none.
rule_fallback(s, media) ==
    IF media = <<>> /\ ~s.is_self /\ ~s.is_video
    THEN IF s.is_gallery = "absent" THEN Failing(media)
         ELSE IF s.is_gallery = "False" /\ HasImageExtension(s.url)
                 /\ s.domain \notin {"i.redd.it", "v.redd.it"}
         THEN Going(Append(media, Item("external_image_link", 0)))
         ELSE Going(media)
    ELSE Going(media)

\* `except Exception`: logs; the function then returns structured_media as
\* it stands.
AfterError(media) == media

\* extract_media_info: the list returned and whether an error was caught.
extract_media_info(s) ==
    LET first  == first_rules(s)
        embed  == IF first.how = "on" THEN rule_embed(s, first.media) ELSE first
        last   == IF embed.how = "on" THEN rule_fallback(s, embed.media) ELSE embed
    IN  IF last.how = "error"
        THEN [media |-> AfterError(last.media), error |-> TRUE]
        ELSE [media |-> last.media, error |-> FALSE]

(***************************************************************************)
(* SpecMedia, SpecMediaFaulty: one call of extract_media_info              *)
(***************************************************************************)

SeqsUpTo(S, n) == UNION { [1..k -> S] : k \in 0..n }

Domains == {"i.redd.it", "i.imgur.com", "v.redd.it", "example.com"}
Urls == { <<"https://example.com/page", "">>, <<"https://example.com/a", ".JPG">>,
          <<"https://example.com/a", ".png">> }

Submissions(metadata, previews, oembeds) ==
    [is_gallery : {"absent", "True", "False"}, media_metadata : metadata,
     is_video : BOOLEAN, reddit_video : BOOLEAN, preview : previews,
     domain : Domains, is_self : BOOLEAN, url : Urls, oembed : oembeds]

InitMedia ==
    /\ ClassifierIdle
    /\ praw_importable = TRUE
    /\ RetryIdle
    /\ TreeIdle
    /\ MainIdle
    /\ FetchIdle
    /\ submission \in Submissions(SeqsUpTo({"Image", "Video", "Unusable"}, MaxGalleryItems),
                                  {"absent", "images"},
                                  {"absent", "YouTube video", "other"})
    /\ media_pc = "ready"
    /\ structured_media = <<>>
    /\ media_error = FALSE

InitMediaFaulty ==
    /\ ClassifierIdle
    /\ praw_importable = TRUE
    /\ RetryIdle
    /\ TreeIdle
    /\ MainIdle
    /\ FetchIdle
    /\ submission \in Submissions(SeqsUpTo({"Image", "Video", "Unusable", "Malformed"},
                                           MaxFaultyItems),
                                  {"absent", "images", "Malformed"},
                                  {"absent", "YouTube video", "other", "Malformed"})
    /\ media_pc = "ready"
    /\ structured_media = <<>>
    /\ media_error = FALSE

ExtractMedia ==
    /\ media_pc = "ready"
    /\ structured_media' = extract_media_info(submission).media
    /\ media_error' = extract_media_info(submission).error
    /\ media_pc' = "done"
    /\ UNCHANGED <<fetch_vars, cl_vars, praw_importable, retry_vars, tree_vars, main_vars,
                   submission>>

NextMedia == ExtractMedia

SpecMedia == InitMedia /\ [][NextMedia]_vars

SpecMediaFaulty == InitMediaFaulty /\ [][NextMedia]_vars

(***************************************************************************)
(* Properties of the media classifier                                      *)
(***************************************************************************)

\* The places of the usable entries of media_metadata, in its order.
UsablePlaces(items) ==
    SelectSeq([i \in 1..Len(items) |-> i], LAMBDA i : items[i] \in {"Image", "Video"})

QualifiesForImageLink(s) ==
    /\ ~(s.is_gallery = "True" /\ s.media_metadata # <<>>)
    /\ ~(s.is_video /\ s.reddit_video)
    /\ s.preview = "images"
    /\ ~s.is_self /\ ~s.is_video
    /\ HasImageExtension(s.url)
    /\ s.domain \notin {"i.redd.it", "i.imgur.com", "v.redd.it"}

\* C17: when a post qualifies for image_link under rule 3 and also carries a
\* YouTube video oEmbed payload, the returned list has one item only, of type
\* youtube_video_embed: the pending image_link is dropped.
C17_OnlyTheEmbed ==
    (/\ media_pc = "done"
     /\ QualifiesForImageLink(submission)
     /\ submission.oembed = "YouTube video") =>
        structured_media = << Item("youtube_video_embed", 0) >>

\* C18: if an error occurs inside extract_media_info, also after items were
\* appended, the function raises nothing and returns an empty list.
C18_ErrorGivesEmptyList ==
    (media_pc = "done" /\ media_error) => structured_media = <<>>

\* C23: a rule that produces no item hands over to the next rule: for a post
\* flagged as gallery whose metadata yields no item, native-video metadata
\* gives exactly one reddit_video item, and otherwise preview metadata on a
\* first-party image host gives exactly one image item.
C23_NextRuleTakesOver ==
    (/\ media_pc = "done"
     /\ submission.is_gallery = "True"
     /\ UsablePlaces(submission.media_metadata) = <<>>) =>
        /\ (submission.is_video /\ submission.reddit_video) =>
              structured_media = << Item("reddit_video", 0) >>
        /\ (/\ ~(submission.is_video /\ submission.reddit_video)
            /\ submission.preview = "images"
            /\ submission.domain \in {"i.redd.it", "i.imgur.com"}) =>
              structured_media = << Item("image", 0) >>

(***************************************************************************)
(* main: parse_arguments, the check of the submission, fetch_post_data and *)
(* fetch_comments_data behind their retry wrappers, and the output         *)
(*                                                                         *)
(* argv holds the flags of the command line (url: a URL was given, which   *)
(* makes the run a command-line run) and the answers an interactive run    *)
(* gets at its prompts.  An optional number is <<>> for None.              *)
(* The sleeps of the two wrappers are not modelled here: an attempt that   *)
(* is to be retried is followed by the next attempt.                       *)
(***************************************************************************)

\* The post id main extracts from the URL.  An id is a sequence of pieces
\* the text of the id is cut into, so that a phrase inside it can be matched.
MainPostId == <<"1abcde">>

\* The interactive part of parse_arguments: the answers are written into the
\* namespace next to what the command line had set.
Prompted(a) ==
    IF a.url THEN a
    ELSE LET no_comments == a.no_comments \/ a.answer_limit = <<0>>
         IN  [a EXCEPT
                !.all_comments = a.all_comments \/ a.answer_limit = <<>>,
                !.no_comments = no_comments,
                !.comments = IF a.answer_limit \notin {<<>>, <<0>>}
                             THEN a.answer_limit ELSE a.comments,
                !.sort = IF no_comments THEN a.sort ELSE a.answer_sort,
                !.depth = IF no_comments THEN a.depth ELSE a.answer_depth]

\* parser.error for a negative --comments value
RejectsArguments(a) ==
    ~Prompted(a).no_comments /\ Prompted(a).comments # <<>> /\ Prompted(a).comments[1] < 0

\* "Determine final comment fetch count": 0 for none, None for all.
ResolvedLimit(a) ==
    IF Prompted(a).no_comments THEN <<0>>
    ELSE IF Prompted(a).comments # <<>> THEN Prompted(a).comments
    ELSE <<>>

parse_arguments(a) ==
    [comment_limit |-> ResolvedLimit(a), sort |-> Prompted(a).sort,
     depth |-> Prompted(a).depth, interactive_mode |-> ~a.url]

\* `"401" in str(e) or "403" in str(e)`
Mentions401or403(e) == Contains(e.msg, <<"401">>) \/ Contains(e.msg, <<"403">>)

\* `"404" in str(e) or "not found" in str(e).lower()`
Mentions404(e) == Contains(e.msg, <<"404">>) \/ Contains(LowerText(e.msg), <<"not", "found">>)

\* The except clauses of fetch_post_data for the post with the given id.
fetch_post_failure_untranslated(id, e) == e
fetch_post_failure(id, e) ==
    IF e.cls \in PRAWExceptionClasses
    THEN IF Mentions404(e)
         THEN RaisedFrom("PostRetrievalError",
                         <<"Post", "with", "ID">> \o id \o <<"not", "found", "(", "404", ").">>,
                         e)
         ELSE IF Mentions401or403(e)
         THEN RaisedFrom("APIAuthenticationError",
                         <<"Authentication", "error", "fetching", "post">> \o id \o <<".">>, e)
         ELSE RaisedFrom("PostRetrievalError",
                         <<"Failed", "to", "fetch", "post">> \o id
                            \o <<"due", "to", "API", "error", ":">> \o e.msg, e)
    ELSE RaisedFrom("PostRetrievalError",
                    <<"An", "unexpected", "error", "occurred", "while", "fetching", "post">>
                       \o id \o <<":">> \o e.msg, e)

\* The except clauses of fetch_comments_data for the post with the given id.
fetch_comments_failure_raw(id, e) == e
fetch_comments_failure(id, e) ==
    IF e.cls \in PRAWExceptionClasses
    THEN IF Mentions401or403(e)
         THEN RaisedFrom("APIAuthenticationError",
                         <<"Authentication", "error", "fetching", "comments", "for", "post">>
                            \o id \o <<".">>, e)
         ELSE IF Mentions404(e)
         THEN RaisedFrom("CommentRetrievalError",
                         <<"Post">> \o id \o <<"comments", "not", "found", "or", "post",
                                               "became", "inaccessible", "(", "404", ").">>, e)
         ELSE RaisedFrom("CommentRetrievalError",
                         <<"Failed", "to", "fetch", "comments", "for", "post">> \o id
                            \o <<"due", "to", "API", "error", ":">> \o e.msg, e)
    ELSE RaisedFrom("CommentRetrievalError",
                    <<"An", "unexpected", "error", "occurred", "while", "fetching",
                      "comments", "for", "post">> \o id \o <<":">> \o e.msg, e)

\* The error fetch_post_data raises for a submission without title.
NoTitle(id) ==
    Error("PostRetrievalError", "<absent>",
          <<"Post", "with", "ID">> \o id
             \o <<"is", "deleted,", "private,", "or", "does", "not", "exist.">>)

\* What main raises when the submission cannot be loaded; without a title the
\* same error, raised inside the try, is the cause.
NotLoadedText ==
    <<"Failed", "to", "load", "submission", "details", "for", "post", "ID">>
        \o MainPostId \o <<".">>
SubmissionNotLoaded(sub_error) == RaisedFrom("PostRetrievalError", NotLoadedText, sub_error)
SubmissionWithoutTitle == Error("PostRetrievalError", "<absent>", NotLoadedText)

\* `if args.comment_limit is None or args.comment_limit > 0`
WantsComments_always(a) == TRUE
WantsComments(a) == IF a.comment_limit = <<>> THEN TRUE ELSE a.comment_limit[1] > 0

\* num_comments as main passes it
PassedNumComments(a) == IF a.comment_limit # <<>> THEN a.comment_limit[1] ELSE 1000

(***************************************************************************)
(* SpecMain: one run of main                                               *)
(***************************************************************************)

\* Errors the remote source answers a request with.
RemoteErrors == {
    Error("ResponseException", "404", <<"received", "404", "HTTP", "response">>),
    Error("ResponseException", "429", <<"received", "429", "HTTP", "response">>),
    Error("ResponseException", "503", <<"received", "503", "HTTP", "response">>),
    Error("RedditAPIException", "<absent>", <<"rate", "limit">>),
    Error("RedditAPIException", "<absent>", <<"403", "forbidden">>) }

\* The comment forests the source holds in a run of main.
MainForests == {
    EmptyForest,
    [n |-> 2, parent |-> <<0, 0>>, kind |-> <<"Comment", "Comment">>, score |-> <<1, 2>>],
    [n |-> 3, parent |-> <<0, 1, 0>>, kind |-> <<"Comment", "Comment", "MoreComments">>,
     score |-> <<2, 1, 1>>] }

CommandLines ==
    { a \in [url : BOOLEAN, comments : {<<>>, <<0>>, <<2>>, <<-1>>},
             all_comments : BOOLEAN, no_comments : BOOLEAN,
             sort : {"best", "top"}, depth : {<<>>, <<1>>},
             answer_limit : {<<>>, <<0>>, <<2>>}, answer_sort : {"best", "new"},
             answer_depth : {<<>>, <<0>>}] :
        \* the three comment flags exclude each other
        /\ ~(a.all_comments /\ a.no_comments)
        /\ a.comments # <<>> => ~a.all_comments /\ ~a.no_comments
        \* a command-line run asks nothing
        /\ a.url => a.answer_limit = <<>> /\ a.answer_sort = "best" /\ a.answer_depth = <<>>
        \* the interactive runs tried leave --sort and --depth at their defaults
        /\ ~a.url => a.sort = "best" /\ a.depth = <<>> }

InitMain ==
    /\ ClassifierIdle
    /\ praw_importable = TRUE
    /\ RetryIdle
    /\ TreeIdle
    /\ MediaIdle
    /\ FetchIdle
    /\ argv \in CommandLines
    /\ main_pc = "start"
    /\ args = NoArgs
    /\ post_retries = 0 /\ comment_retries = 0
    /\ post_requests = 0 /\ comment_calls = 0
    /\ post_data = <<>> /\ comments_data = <<>>
    /\ main_error = <<>> /\ exit_code = <<>>

run_vars == <<post_retries, comment_retries, post_requests, comment_calls, post_data,
              comments_data>>

\* The run ends with error e: logged, exit code 1.
FailsWith(e) ==
    /\ main_pc' = "exited"
    /\ main_error' = <<e>>
    /\ exit_code' = <<1>>

\* args = parse_arguments(); parser.error ends the process with status 2.
ParseArguments ==
    /\ main_pc = "start"
    /\ IF RejectsArguments(argv)
       THEN /\ main_pc' = "exited" /\ exit_code' = <<2>>
            /\ UNCHANGED args
       ELSE /\ main_pc' = "parsed" /\ args' = parse_arguments(argv)
            /\ UNCHANGED exit_code
    /\ UNCHANGED <<fetch_vars, cl_vars, praw_importable, retry_vars, tree_vars, media_vars,
                   argv,
                   run_vars, main_error>>

\* URL validation, extraction of the post id and initialize_reddit_client.
InitializeClient ==
    /\ main_pc = "parsed"
    /\ \E outcome \in {"ok", "URLValidationError", "ConfigError", "APIAuthenticationError"} :
          IF outcome = "ok"
          THEN main_pc' = "client ready" /\ UNCHANGED <<main_error, exit_code>>
          ELSE FailsWith(Error(outcome, "<absent>", <<"invalid">>))
    /\ UNCHANGED <<fetch_vars, cl_vars, praw_importable, retry_vars, tree_vars, media_vars,
                   argv, args,
                   run_vars>>

\* `_ = submission.author` and the title test: the first request for the post.
LoadSubmission ==
    /\ main_pc = "client ready"
    /\ post_requests' = post_requests + 1
    /\ \/ main_pc' = "submission loaded" /\ UNCHANGED <<main_error, exit_code>>
       \/ \E sub_error \in RemoteErrors : FailsWith(SubmissionNotLoaded(sub_error))
       \/ FailsWith(SubmissionNotLoaded(SubmissionWithoutTitle))
    /\ UNCHANGED <<fetch_vars, cl_vars, praw_importable, retry_vars, tree_vars, media_vars,
                   argv, args,
                   post_retries, comment_retries, comment_calls, post_data, comments_data>>

\* What the wrapper does with error e of an attempt after `done` retries.
AfterFailedAttempt(done, e) ==
    CASE HandlerDecision(done, DefaultMaxRetries, e) = "sleep" -> "retry"
      [] OTHER -> "raise"

\* One attempt of fetch_post_data inside its wrapper.
FetchPostAttempt ==
    /\ main_pc = "submission loaded"
    /\ post_requests' = post_requests + 1
    /\ \/ /\ main_pc' = "post fetched"
          /\ post_data' = MainPostId
          /\ UNCHANGED <<post_retries, main_error, exit_code>>
       \/ \E e \in { fetch_post_failure(MainPostId, x) :
                      x \in RemoteErrors \cup {NoTitle(MainPostId)} } :
             IF AfterFailedAttempt(post_retries, e) = "retry"
             THEN /\ post_retries' = post_retries + 1
                  /\ UNCHANGED <<main_pc, post_data, main_error, exit_code>>
             ELSE /\ FailsWith(Surfaced("fetch_post_data", e))
                  /\ UNCHANGED <<post_retries, post_data>>
    /\ UNCHANGED <<fetch_vars, cl_vars, praw_importable, retry_vars, tree_vars, media_vars,
                   argv, args,
                   comment_retries, comment_calls, comments_data>>

\* One attempt of fetch_comments_data inside its wrapper, called with the
\* sort order, number and depth of args.
FetchCommentsAttempt ==
    /\ main_pc = "post fetched"
    /\ WantsComments(args)
    /\ comment_calls' = comment_calls + 1
    /\ forest' \in MainForests
    /\ fail_at' \in {<<>>, <<0, 0>>}
    /\ sort_order' = args.sort
    /\ num_comments' = PassedNumComments(args)
    /\ comment_depth' = args.depth
    /\ LET called == fetch_comments_data'
       IN  /\ tree_pc' = IF called.raised THEN "raised" ELSE "done"
           /\ tree_result' = called.list
           /\ IF ~called.raised
              THEN /\ comments_data' = called.list
                   /\ main_pc' = "comments done"
                   /\ UNCHANGED <<comment_retries, main_error, exit_code>>
              ELSE \E e \in { fetch_comments_failure(MainPostId, x) : x \in RemoteErrors } :
                      IF AfterFailedAttempt(comment_retries, e) = "retry"
                      THEN /\ comment_retries' = comment_retries + 1
                           /\ UNCHANGED <<main_pc, comments_data, main_error, exit_code>>
                      ELSE /\ FailsWith(Surfaced("fetch_comments_data", e))
                           /\ UNCHANGED <<comment_retries, comments_data>>
    /\ UNCHANGED <<fetch_vars, cl_vars, praw_importable, retry_vars, media_vars, argv, args,
                   post_retries, post_requests, post_data>>

\* `elif args.comment_limit == 0`: comments_data stays the empty list.
SkipComments ==
    /\ main_pc = "post fetched"
    /\ ~WantsComments(args)
    /\ main_pc' = "comments done"
    /\ UNCHANGED <<fetch_vars, cl_vars, praw_importable, retry_vars, tree_vars, media_vars,
                   argv, args,
                   run_vars, main_error, exit_code>>

\* format_data_as_json(post_data, comments_data) and the output.
WriteOutput ==
    /\ main_pc = "comments done"
    /\ \/ main_pc' = "exited" /\ exit_code' = <<0>> /\ UNCHANGED main_error
       \/ FailsWith(Error("OutputError", "<absent>", <<"invalid">>))
    /\ UNCHANGED <<fetch_vars, cl_vars, praw_importable, retry_vars, tree_vars, media_vars,
                   argv, args,
                   run_vars>>

NextMain ==
    \/ ParseArguments
    \/ InitializeClient
    \/ LoadSubmission
    \/ FetchPostAttempt
    \/ FetchCommentsAttempt
    \/ SkipComments
    \/ WriteOutput

SpecMain == InitMain /\ [][NextMain]_vars

(***************************************************************************)
(* Properties of main (checked under SpecMain)                             *)
(***************************************************************************)

\* The sort order and the depth the user chose: the flags of a command-line
\* run, the answers of an interactive one.
ChosenSort == IF argv.url THEN argv.sort ELSE argv.answer_sort
ChosenDepth == IF argv.url THEN argv.depth ELSE argv.answer_depth

\* C19: when the resolved comment count is exactly 0, main never calls
\* fetch_comments_data and the comments list handed to the output is empty;
\* when the count is 'all' or greater than 0, main does not get to the output
\* without calling it, and every call has the sort order and the depth the
\* user chose.
C19_CommentsAsRequested ==
    main_pc \in {"parsed", "client ready", "submission loaded", "post fetched",
                 "comments done"} \/ (main_pc = "exited" /\ exit_code # <<2>>) =>
        /\ args.comment_limit = <<0>> => comment_calls = 0 /\ comments_data = <<>>
        /\ args.comment_limit # <<0>> =>
              /\ comment_calls > 0 =>
                    /\ sort_order = args.sort /\ sort_order = ChosenSort
                    /\ comment_depth = args.depth /\ comment_depth = ChosenDepth
              /\ main_pc = "comments done" => comment_calls > 0

\* C19 witness: a run with comment count 0 has fetched the post, skipped the
\* comments and ended well without any call of fetch_comments_data.
C19_Witness ==
    /\ main_pc = "exited" /\ exit_code = <<0>>
    /\ args.comment_limit = <<0>>
    /\ post_data # <<>>
    /\ comment_calls = 0 /\ comments_data = <<>>

\* The run ended without the post: the submission could not be loaded or
\* fetch_post_data failed.
PostUnavailable == main_pc = "exited" /\ post_requests > 0 /\ post_data = <<>>

C26_FirstAccessRetried ==
    (/\ main_pc = "exited"
     /\ post_requests = 1
     /\ main_error # <<>>
     /\ main_error[1].cause # <<>>) =>
        is_retryable_error(main_error[1].cause[1]) # "True"

(***************************************************************************)
(* SpecFetch: one call of fetch_post_data or fetch_comments_data as the    *)
(* callers see them, that is behind @retry_with_backoff() with its         *)
(* defaults.  Every attempt either returns or meets an error at the remote *)
(* source; the function's own except clauses translate the error, and the  *)
(* wrapper's handler decides on the translated error.                      *)
(***************************************************************************)

\* The ids of the posts asked for; an id is base-36 text, so digits such as
\* 500 or 503 can be part of it.
ReferenceId == <<"1abcde">>
FetchIds == {ReferenceId, <<"1ab", "500">>, <<"503", "xyz">>}

FetchNames == {"fetch_post_data", "fetch_comments_data"}

\* Errors the remote source answers a request with: those of a run of main,
\* a prawcore Forbidden, and a PRAW error that names 403 next to 404.
FetchRemoteErrors == RemoteErrors \cup {
    Error("ResponseException", "403", <<"received", "403", "HTTP", "response">>),
    Error("RedditAPIException", "<absent>", <<"403", "forbidden", "for", "404">>),
    Error("RedditAPIException", "<absent>", <<"not", "found">>) }

\* What can make an attempt of the function fail: fetch_post_data also
\* raises on a submission without title.
AttemptErrors(name, id) ==
    IF name = "fetch_post_data" THEN FetchRemoteErrors \cup {NoTitle(id)}
    ELSE FetchRemoteErrors

\* The error that leaves the body of the function on error x.
body_failure(name, id, x) ==
    IF name = "fetch_post_data" THEN fetch_post_failure(id, x)
    ELSE fetch_comments_failure(id, x)

\* AttributeError of the classifier, leaving the handler while it handles e.
ClassifierError(e) ==
    [cls |-> "AttributeError", response |-> "<absent>",
     msg |-> <<"object", "has", "no", "attribute", "status_code">>, cause |-> <<e>>]

InitFetch ==
    /\ ClassifierIdle
    /\ praw_importable = TRUE
    /\ RetryIdle
    /\ TreeIdle
    /\ MediaIdle
    /\ MainIdle
    /\ fetch_name \in FetchNames
    /\ fetch_id \in FetchIds
    /\ fetch_pc = "calling"
    /\ fetch_retries = 0 /\ fetch_attempts = 0 /\ fetch_sleeps = 0
    /\ remote_error = <<>> /\ fetch_raised = <<>> /\ discarded = <<>>

\* `return func(*args, **kwargs)`
FetchAttemptReturns ==
    /\ fetch_pc = "calling"
    /\ fetch_pc' = "returned"
    /\ fetch_attempts' = fetch_attempts + 1
    /\ remote_error' = <<>>
    /\ UNCHANGED <<cl_vars, praw_importable, retry_vars, tree_vars, media_vars, main_vars,
                   fetch_name, fetch_id, fetch_retries, fetch_sleeps, fetch_raised, discarded>>

\* The attempt fails and the handler sleeps: time.sleep, retries += 1.
FetchAttemptRetried ==
    /\ fetch_pc = "calling"
    /\ \E x \in AttemptErrors(fetch_name, fetch_id) :
          /\ HandlerDecision(fetch_retries, DefaultMaxRetries,
                             body_failure(fetch_name, fetch_id, x)) = "sleep"
          /\ remote_error' = <<x>>
    /\ fetch_attempts' = fetch_attempts + 1
    /\ fetch_sleeps' = fetch_sleeps + 1
    /\ fetch_retries' = fetch_retries + 1
    /\ UNCHANGED <<cl_vars, praw_importable, retry_vars, tree_vars, media_vars, main_vars,
                   fetch_name, fetch_id, fetch_pc, fetch_raised, discarded>>

\* The attempt fails and the handler gives up (or its classifier raises).
FetchAttemptGivesUp ==
    /\ fetch_pc = "calling"
    /\ \E x \in AttemptErrors(fetch_name, fetch_id) :
          LET d == body_failure(fetch_name, fetch_id, x)
              decision == HandlerDecision(fetch_retries, DefaultMaxRetries, d)
          IN  /\ decision # "sleep"
              /\ remote_error' = <<x>>
              /\ fetch_raised' = IF decision = "give up"
                                 THEN <<Surfaced(fetch_name, d)>>
                                 ELSE <<ClassifierError(d)>>
    /\ fetch_pc' = "raised"
    /\ fetch_attempts' = fetch_attempts + 1
    /\ UNCHANGED <<cl_vars, praw_importable, retry_vars, tree_vars, media_vars, main_vars,
                   fetch_name, fetch_id, fetch_retries, fetch_sleeps, discarded>>

NextFetch == FetchAttemptReturns \/ FetchAttemptRetried \/ FetchAttemptGivesUp

SpecFetch == InitFetch /\ [][NextFetch]_vars

(***************************************************************************)
(* Properties of fetch_post_data and fetch_comments_data (SpecFetch)       *)
(***************************************************************************)

DomainErrors == {"PostRetrievalError", "CommentRetrievalError", "APIAuthenticationError"}

\* C21: every failure that leaves fetch_post_data or fetch_comments_data is a
\* PostRetrievalError, a CommentRetrievalError or an APIAuthenticationError
\* and carries the error that triggered it as its cause; no error of the
\* remote API leaves the function as it is.
C21_DomainErrorsWithCause ==
    fetch_pc = "raised" =>
        /\ fetch_raised # <<>> /\ remote_error # <<>>
        /\ fetch_raised[1].cls \in DomainErrors
        /\ fetch_raised[1].cls \notin LibraryClasses
        /\ fetch_raised[1].cause = remote_error
        /\ fetch_raised[1] # remote_error[1]

\* C21 witness: fetch_comments_data gave up on an error of prawcore, which
\* left it as the cause of a CommentRetrievalError.
C21_Witness ==
    /\ fetch_pc = "raised" /\ fetch_name = "fetch_comments_data"
    /\ remote_error # <<>> /\ remote_error[1].cls = "ResponseException"
    /\ fetch_raised # <<>> /\ fetch_raised[1].cls = "CommentRetrievalError"
    /\ fetch_raised[1].cause = remote_error

\* C25: while retries remain, an attempt that failed on an error of the
\* remote source is followed by another attempt exactly when
\* is_retryable_error classifies that error as retryable; so an error with
\* status 429 and no transient phrase in its text is retried.  (Stated for
\* the post id without digits that read as a status.)
C25_RetriedWhenRemoteRetryable ==
    [][(/\ fetch_pc = "calling"
        /\ fetch_id = ReferenceId
        /\ fetch_retries < DefaultMaxRetries
        /\ remote_error' # <<>>
        /\ remote_error'[1] \in FetchRemoteErrors) =>
           ((fetch_pc' = "calling") <=> (is_retryable_error(remote_error'[1]) = "True"))]_vars

\* The failure is of the 401/403 class: the response carries that status or
\* the text names it.
Is401or403Class(x) == x.response \in {"401", "403"} \/ Mentions401or403(x)

\* C27: a remote failure of the 401/403 class leaves fetch_post_data and
\* fetch_comments_data as APIAuthenticationError, whatever class carries it
\* and whatever else its text names; never as PostRetrievalError or
\* CommentRetrievalError.
C27_AuthenticationErrorSurfaces ==
    (/\ fetch_pc = "raised"
     /\ remote_error # <<>>
     /\ remote_error[1] \in FetchRemoteErrors
     /\ Is401or403Class(remote_error[1])) =>
        (fetch_raised # <<>> /\ fetch_raised[1].cls = "APIAuthenticationError")

\* C30: the number of attempts of fetch_post_data does not depend on the text
\* of the post id: on the same error of the remote source the call goes on
\* to another attempt exactly when a call for the reference id would.
C30_AttemptsIndependentOfId ==
    [][(/\ fetch_name = "fetch_post_data"
        /\ fetch_pc = "calling"
        /\ remote_error' # <<>>
        /\ remote_error'[1] \in FetchRemoteErrors) =>
           ((fetch_pc' = "calling") <=>
               (HandlerDecision(fetch_retries, DefaultMaxRetries,
                                fetch_post_failure(ReferenceId, remote_error'[1])) = "sleep"))]_vars

(***************************************************************************)
(* SpecComments: one call of fetch_comments_data behind the retry          *)
(* decorator, with the body of the function run on a forest.  An attempt   *)
(* either gets through the listing or the listing fails after some items;  *)
(* the wrapper then calls the function again or gives up.                  *)
(***************************************************************************)

MaxFailPoint == 2

\* Where the top-level listing can fail in an attempt: nowhere, or after k items.
FailPoints == {<<>>} \cup { <<0, k>> : k \in 0..MaxFailPoint }

\* The forests of the post.
CommentForests == MainForests \cup {
    [n |-> 3, parent |-> <<0, 0, 0>>, kind |-> <<"Deleted", "Comment", "Comment">>,
     score |-> <<1, 1, 1>>] }

InitComments ==
    /\ ClassifierIdle
    /\ praw_importable = TRUE
    /\ RetryIdle
    /\ MediaIdle
    /\ MainIdle
    /\ forest \in CommentForests
    /\ fail_at = <<>>
    /\ sort_order = "best"
    /\ comment_depth \in {<<>>, <<0>>}
    /\ num_comments \in {1, 2}
    /\ tree_pc = "ready" /\ tree_result = <<>>
    /\ fetch_name = "fetch_comments_data"
    /\ fetch_id = ReferenceId
    /\ fetch_pc = "calling"
    /\ fetch_retries = 0 /\ fetch_attempts = 0 /\ fetch_sleeps = 0
    /\ remote_error = <<>> /\ fetch_raised = <<>> /\ discarded = <<>>

\* The listing of this attempt fails at `fail` (or nowhere); the arguments
\* and the forest are those of the call.
CommentsAttempt(fail) ==
    /\ fetch_pc = "calling"
    /\ fail_at' = fail
    /\ fetch_attempts' = fetch_attempts + 1
    /\ UNCHANGED <<cl_vars, praw_importable, retry_vars, media_vars, main_vars,
                   forest, sort_order, comment_depth, num_comments, fetch_name, fetch_id>>

\* The body gets through: the wrapper returns its list.
CommentsAttemptReturns ==
    /\ \E fail \in FailPoints : CommentsAttempt(fail)
    /\ UNCHANGED <<fetch_retries, fetch_sleeps, fetch_raised, discarded>>
    /\ ~fetch_comments_data'.raised
    /\ tree_result' = fetch_comments_data'.list
    /\ tree_pc' = "done"
    /\ fetch_pc' = "returned"
    /\ remote_error' = <<>>

\* The listing fails on error x and the handler sleeps; what the attempt had
\* collected is gone with its locals.
CommentsAttemptRetried ==
    /\ \E fail \in FailPoints : CommentsAttempt(fail)
    /\ \E x \in FetchRemoteErrors :
          /\ HandlerDecision(fetch_retries, DefaultMaxRetries,
                             fetch_comments_failure(fetch_id, x)) = "sleep"
          /\ remote_error' = <<x>>
    /\ fetch_retries' = fetch_retries + 1
    /\ fetch_sleeps' = fetch_sleeps + 1
    /\ UNCHANGED <<fetch_raised, fetch_pc, tree_result>>
    /\ fetch_comments_data'.raised
    /\ discarded' = fetch_comments_data'.collected
    /\ tree_pc' = "raised"

\* The listing fails on error x and the handler gives up.
CommentsAttemptGivesUp ==
    /\ \E fail \in FailPoints : CommentsAttempt(fail)
    /\ \E x \in FetchRemoteErrors :
          LET d == fetch_comments_failure(fetch_id, x)
          IN  /\ HandlerDecision(fetch_retries, DefaultMaxRetries, d) = "give up"
              /\ remote_error' = <<x>>
              /\ fetch_raised' = <<Surfaced(fetch_name, d)>>
    /\ UNCHANGED <<fetch_retries, fetch_sleeps, tree_result>>
    /\ fetch_comments_data'.raised
    /\ discarded' = fetch_comments_data'.collected
    /\ tree_pc' = "raised"
    /\ fetch_pc' = "raised"

NextComments == CommentsAttemptReturns \/ CommentsAttemptRetried \/ CommentsAttemptGivesUp

SpecComments == InitComments /\ [][NextComments]_vars

\* C29: when fetch_comments_data failed part-way through the top level and
\* was called again, the list finally returned holds nodes of the attempt
\* that got through only: the first min(num_comments, V) valid comments of
\* the listing, each once; what a failed attempt had collected is not in
\* front of them, and the count towards num_comments began at 0 again.
C29_OnlyTheSuccessfulAttempt ==
    (fetch_pc = "returned" /\ fetch_retries > 0) =>
        /\ Len(tree_result) = Min(num_comments, Len(Valid(Children(0))))
        /\ Ids(tree_result) = SubSeq(Valid(Children(0)), 1, Len(tree_result))
        /\ \A i, j \in 1..Len(tree_result) :
              i # j => tree_result[i].id # tree_result[j].id

\* C29 witness: an attempt failed after it had collected a comment, and the
\* call that returned after it gives that comment once, with the next one.
C29_Witness ==
    /\ fetch_pc = "returned" /\ fetch_retries > 0
    /\ discarded # <<>>
    /\ Len(tree_result) = 2
    /\ tree_result[1] = discarded[1]

====
